---- MODULE Spec2Model ----
(***************************************************************************)
(* Model of static/js/main.js: the resume upload form handler.             *)
(*                                                                         *)
(* The page is single threaded: every event handler runs to completion,    *)
(* and the async submit handler is split at its one suspension point (the  *)
(* awaits on fetch() and response.json()) into the part that runs on the   *)
(* submit event and the part that runs when the request settles.           *)
(* Optional values (a missing file, a missing JSON field) are sequences of *)
(* length 0 or 1.  Strings that the code transforms are sequences of       *)
(* one-character strings; strings it only copies are TLA+ strings.         *)
(***************************************************************************)
EXTENDS Integers, Sequences, FiniteSets, TLC

VARIABLES
    display,             \* style.display of the four containers
    errorMessage,        \* errorMessage.textContent
    fileName,            \* fileName.textContent
    files,               \* resumeFile.files: None or Some(file)
    inFlight,            \* number of fetch('/upload') calls not yet settled
    experienceLevel,     \* #experienceLevel textContent (None until rendered)
    skillCount,          \* #skillCount textContent (None until rendered)
    domainsList,         \* texts of the tags in #domainsList
    skillsList,          \* texts of the tags in #skillsList
    recCount,            \* #recCount textContent (None until rendered)
    recommendationsList, \* children of #recommendationsList
    lastOp               \* history: the handler that ran last

vars == <<display, errorMessage, fileName, files, inFlight, experienceLevel,
          skillCount, domainsList, skillsList, recCount, recommendationsList,
          lastOp>>

rendered == <<experienceLevel, skillCount, domainsList, skillsList, recCount,
              recommendationsList>>

None == <<>>
Some(v) == <<v>>

(***************************************************************************)
(* Bounds                                                                  *)
(***************************************************************************)
MaxInFlight == 2      \* requests allowed to be pending at once in the model
MaxOver == 1          \* how many sizes above the limit are tried
MaxDomainLen == 3     \* longest domain string
MaxDomains == 2       \* longest domain list

(***************************************************************************)
(* Inputs                                                                  *)
(***************************************************************************)
MaxFileSize == 16 * 1024 * 1024

PdfType == "application/pdf"
DocxType == "application/vnd.openxmlformats-officedocument.wordprocessingml.document"
DocType == "application/msword"

FileTypes == {PdfType, DocxType, DocType, "text/plain"}
FileSizes == {0, MaxFileSize} \cup {MaxFileSize + k : k \in 1..MaxOver}
Files == [name : {"resume.pdf"}, size : FileSizes, type : FileTypes]

Alphabet == {"a", "_"}
StringsOfLen(n) == [1..n -> Alphabet]
DomainStrings == UNION {StringsOfLen(n) : n \in 0..MaxDomainLen}
DomainLists == UNION {[1..n -> DomainStrings] : n \in 0..MaxDomains}

SkillNames == <<"python", "sql", "java", "go", "rust", "c", "r", "scala",
                "perl", "ruby", "swift">>
SkillInputs == {Some(<<>>), Some(SkillNames)}
DomainInputs == {None, Some(<<<<"a", "_", "a">>>>)}

\* ratings are in tenths: 34 is 3.4
RecommendationInputs == {None, Some(<<>>),
                         Some(<<[rating |-> 34], [rating |-> 35]>>)}

AnalysisOver(domainInputs) ==
    {None} \cup
    {Some([experience_level |-> "Mid", skill_count |-> 3,
           domains |-> d, skills |-> s]) :
        d \in domainInputs, s \in SkillInputs}

\* the JSON bodies a server can send: every field present or absent
ResponsesOver(domainInputs) ==
    [success : {None, Some(TRUE), Some(FALSE)},
     error : {None, Some("Could not read the resume")},
     analysis : AnalysisOver(domainInputs),
     recommendations : RecommendationInputs]

Responses == ResponsesOver(DomainInputs)
WideResponses ==
    [success : {Some(TRUE)},
     error : {None},
     analysis : {Some([experience_level |-> "Mid", skill_count |-> 3,
                       domains |-> d, skills |-> Some(<<>>)]) :
                     d \in {None} \cup {Some(l) : l \in DomainLists}},
     recommendations : {Some(<<>>)}]

(***************************************************************************)
(* Page regions                                                            *)
(***************************************************************************)
Containers == {"uploadSection", "loadingContainer", "errorContainer",
               "resultsSection"}

Visible(c) == display[c] = "block"

\* The host page shows the upload form and hides the other three containers.
InitialDisplay ==
    [c \in Containers |-> IF c = "uploadSection" THEN "block" ELSE "none"]

(***************************************************************************)
(* View-state helpers: the display each function leaves, given the display *)
(* d it starts from.                                                       *)
(***************************************************************************)
showLoadingDisplay_stayHidden(d) ==
    [d EXCEPT !.uploadSection = "none", !.errorContainer = "none",
              !.resultsSection = "none"]

showLoadingDisplay(d) ==
    [d EXCEPT !.uploadSection = "none", !.errorContainer = "none",
              !.resultsSection = "none", !.loadingContainer = "block"]

showErrorDisplay_keepLoading(d) ==
    [d EXCEPT !.uploadSection = "none", !.resultsSection = "none",
              !.errorContainer = "block"]

showErrorDisplay(d) ==
    [d EXCEPT !.uploadSection = "none", !.loadingContainer = "none",
              !.resultsSection = "none", !.errorContainer = "block"]

\* displayResults, lines 95-97: runs before anything is rendered
displayResultsHidden(d) ==
    [d EXCEPT !.uploadSection = "none", !.loadingContainer = "none",
              !.errorContainer = "none"]

displayResultsShown_forgotten(d) == d

\* displayResults, line 106: runs only if rendering did not throw
displayResultsShown(d) == [d EXCEPT !.resultsSection = "block"]

showError(d, message) ==
    /\ display' = showErrorDisplay(d)
    /\ errorMessage' = message

(***************************************************************************)
(* Validation (submit handler, lines 25-44): None when the file is         *)
(* accepted, Some(message) when it is rejected.                            *)
(***************************************************************************)
allowedTypes_plusText == {PdfType, DocxType, DocType, "text/plain"}

allowedTypes == {PdfType, DocxType, DocType}

validate_sizeInclusive(fs) ==
    IF fs = None THEN Some("Please select a file to upload")
    ELSE IF fs[1].size >= MaxFileSize
         THEN Some("File size exceeds 16MB limit")
    ELSE IF fs[1].type \notin allowedTypes
         THEN Some("Invalid file type. Please upload a PDF or DOCX file")
    ELSE None

validate_noTypeCheck(fs) ==
    IF fs = None THEN Some("Please select a file to upload")
    ELSE IF fs[1].size > MaxFileSize
         THEN Some("File size exceeds 16MB limit")
    ELSE None

validate(fs) ==
    IF fs = None THEN Some("Please select a file to upload")
    ELSE IF fs[1].size > MaxFileSize
         THEN Some("File size exceeds 16MB limit")
    ELSE IF fs[1].type \notin allowedTypes
         THEN Some("Invalid file type. Please upload a PDF or DOCX file")
    ELSE None

(***************************************************************************)
(* Result rendering                                                        *)
(***************************************************************************)
RECURSIVE IndexOf(_, _, _)
\* first position >= i of character c in s, 0 if there is none
IndexOf(s, c, i) ==
    IF i > Len(s) THEN 0
    ELSE IF s[i] = c THEN i
    ELSE IndexOf(s, c, i + 1)

\* String.prototype.replace with a string pattern: the first match only
replace(s, c, r) ==
    LET i == IndexOf(s, c, 1)
    IN  IF i = 0 THEN s ELSE [s EXCEPT ![i] = r]

toUpperCaseChar(c) == IF c = "a" THEN "A" ELSE c
toUpperCase(s) == [i \in 1..Len(s) |-> toUpperCaseChar(s[i])]

General == <<"G", "e", "n", "e", "r", "a", "l">>

\* line 127
domainTag(domain) == toUpperCase(replace(domain, "_", " "))

\* lines 121-132
renderDomains(analysis) ==
    IF analysis.domains # None /\ Len(analysis.domains[1]) > 0
    THEN [i \in 1..Len(analysis.domains[1]) |->
             domainTag(analysis.domains[1][i])]
    ELSE <<General>>

SkillTagLimit == 10

\* lines 135-155
renderSkills(analysis) ==
    IF analysis.skills # None /\ Len(analysis.skills[1]) > 0
    THEN LET skills == analysis.skills[1]
             shown == SubSeq(skills, 1,
                             IF Len(skills) < SkillTagLimit
                             THEN Len(skills) ELSE SkillTagLimit)
         IN  IF Len(skills) > SkillTagLimit
             THEN Append(shown,
                   "+" \o ToString(Len(skills) - SkillTagLimit) \o " more")
             ELSE shown
    ELSE <<"No specific skills identified">>

\* lines 184-185, rating in tenths
stars(rating) == (rating \div 10) + (IF rating % 10 >= 5 THEN 1 ELSE 0)

\* lines 178-249; the remaining fields of a card are copied from the course
createCourseCard(course, index) ==
    [kind |-> "course-card", animationDelay |-> index,
     stars |-> stars(course.rating), rating |-> course.rating]

NoRecommendations ==
    [kind |-> "message", animationDelay |-> 0, stars |-> 0, rating |-> 0]

\* lines 159-175; index is zero based
renderRecommendations(recommendations) ==
    IF Len(recommendations) = 0
    THEN <<NoRecommendations>>
    ELSE [i \in 1..Len(recommendations) |->
             createCourseCard(recommendations[i], i - 1)]

\* lines 113-156
displayAnalysis(analysis) ==
    /\ experienceLevel' = Some(analysis.experience_level)
    /\ skillCount' = Some(analysis.skill_count)
    /\ domainsList' = renderDomains(analysis)
    /\ skillsList' = renderSkills(analysis)

\* lines 159-175
displayRecommendations(recommendations) ==
    /\ recCount' = Some(Len(recommendations))
    /\ recommendationsList' = renderRecommendations(recommendations)

ConnectMessage == "Failed to connect to server. Please try again."
GenericMessage == "An error occurred while processing your resume"

(***************************************************************************)
(* displayResults (lines 93-110) as called from the try block of the       *)
(* submit handler: reading a field of a missing analysis (line 115) or the *)
(* length of a missing recommendations (line 163) throws, and the catch of *)
(* lines 69-72 then runs showError on whatever was done so far.            *)
(***************************************************************************)
displayResults(data) ==
    IF data.analysis = None
    THEN /\ showError(displayResultsHidden(display), ConnectMessage)
         /\ UNCHANGED rendered
    ELSE /\ displayAnalysis(data.analysis[1])
         /\ IF data.recommendations = None
            THEN /\ showError(displayResultsHidden(display), ConnectMessage)
                 /\ UNCHANGED <<recCount, recommendationsList>>
            ELSE /\ displayRecommendations(data.recommendations[1])
                 /\ display' =
                      displayResultsShown(displayResultsHidden(display))
                 /\ UNCHANGED errorMessage

(***************************************************************************)
(* Initial state: the page as loaded, nothing selected, nothing rendered.  *)
(***************************************************************************)
Init ==
    /\ display = InitialDisplay
    /\ errorMessage = ""
    /\ fileName = "Choose File"
    /\ files = None
    /\ inFlight = 0
    /\ experienceLevel = None
    /\ skillCount = None
    /\ domainsList = <<>>
    /\ skillsList = <<>>
    /\ recCount = None
    /\ recommendationsList = <<>>
    /\ lastOp = "init"

(***************************************************************************)
(* Event handlers                                                          *)
(***************************************************************************)
\* lines 13-19: the user picks a file, or empties the selection
FileChange(selection) ==
    /\ selection # files
    /\ files' = selection
    /\ fileName' = IF selection # None THEN selection[1].name
                   ELSE "Choose File"
    /\ lastOp' = "change"
    /\ UNCHANGED <<display, errorMessage, inFlight, rendered>>

\* lines 22-58: the submit handler up to the await on fetch
Submit ==
    /\ IF validate(files) # None
       THEN /\ showError(display, validate(files)[1])
            /\ UNCHANGED inFlight
       ELSE /\ inFlight < MaxInFlight
            /\ display' = showLoadingDisplay(display)
            /\ inFlight' = inFlight + 1
            /\ UNCHANGED errorMessage
    /\ lastOp' = "submit"
    /\ UNCHANGED <<fileName, files, rendered>>

\* lines 60-68: the request resolved and its body parsed as JSON
ResponseWith(ok, data) ==
    /\ inFlight > 0
    /\ inFlight' = inFlight - 1
    /\ IF ok /\ data.success = Some(TRUE)
       THEN displayResults(data)
       ELSE /\ showError(display,
                         IF data.error # None THEN data.error[1]
                         ELSE GenericMessage)
            /\ UNCHANGED rendered
    /\ lastOp' = "response"
    /\ UNCHANGED <<fileName, files>>

Response == \E ok \in BOOLEAN, data \in Responses : ResponseWith(ok, data)

TransportFailure_unhandled ==
    /\ inFlight > 0
    /\ inFlight' = inFlight - 1
    /\ lastOp' = "failure"
    /\ UNCHANGED <<display, errorMessage, fileName, files, rendered>>

\* lines 55-60, 69-72: fetch rejected or response.json() threw
TransportFailure ==
    /\ inFlight > 0
    /\ inFlight' = inFlight - 1
    /\ showError(display, ConnectMessage)
    /\ lastOp' = "failure"
    /\ UNCHANGED <<fileName, files, rendered>>

resetForm_keepName ==
    /\ files' = None
    /\ display' = [uploadSection |-> "block", loadingContainer |-> "none",
                   errorContainer |-> "none", resultsSection |-> "none"]
    /\ lastOp' = "reset"
    /\ UNCHANGED <<fileName, errorMessage, inFlight, rendered>>

\* lines 257-267
resetForm ==
    /\ files' = None
    /\ fileName' = "Choose File"
    /\ display' = [display EXCEPT !.uploadSection = "block",
                                  !.loadingContainer = "none",
                                  !.errorContainer = "none",
                                  !.resultsSection = "none"]
    /\ lastOp' = "reset"
    /\ UNCHANGED <<errorMessage, inFlight, rendered>>

Next ==
    \/ \E selection \in {None} \cup {Some(f) : f \in Files} :
           FileChange(selection)
    \/ Submit
    \/ Response
    \/ TransportFailure
    \/ resetForm

Spec == Init /\ [][Next]_vars

\* every request that was sent is eventually settled, one way or the other
FairSpec == Spec /\ WF_vars(Response \/ TransportFailure)

(***************************************************************************)
(* displayAnalysis over every domain list: the page after an accepted      *)
(* submit, answered by successful responses carrying each list in turn.    *)
(***************************************************************************)
InitAnalysis ==
    /\ display = showLoadingDisplay(InitialDisplay)
    /\ errorMessage = ""
    /\ fileName = "resume.pdf"
    /\ files = Some([name |-> "resume.pdf", size |-> 0, type |-> PdfType])
    /\ inFlight = 1
    /\ experienceLevel = None
    /\ skillCount = None
    /\ domainsList = <<>>
    /\ skillsList = <<>>
    /\ recCount = None
    /\ recommendationsList = <<>>
    /\ lastOp = "submit"

ResponseWide == \E data \in WideResponses : ResponseWith(TRUE, data)

NextAnalysis == ResponseWide

SpecAnalysis == InitAnalysis /\ [][NextAnalysis]_vars

(***************************************************************************)
(* Properties                                                              *)
(***************************************************************************)
VisibleSet == {c \in Containers : Visible(c)}
OnlyVisible(c) == VisibleSet = {c}

\* the validation rules as the specification lists them
Accepted(fs) ==
    /\ fs # None
    /\ fs[1].size <= 16777216
    /\ fs[1].type \in
         {"application/pdf",
          "application/vnd.openxmlformats-officedocument.wordprocessingml.document",
          "application/msword"}

\* C1: after every handler, also one whose rendering of the response threw
\* partway through displayResults, exactly one of the four containers is
\* visible.
C1_ExactlyOneVisible == Cardinality(VisibleSet) = 1

\* the response carried an analysis but no recommendations: displayAnalysis
\* rendered, displayRecommendations threw, the catch showed the error
C1_Witness ==
    /\ lastOp = "response"
    /\ experienceLevel # None
    /\ recCount = None
    /\ Visible("errorContainer")

\* C2: a submit of a file larger than 16,777,216 bytes ends in the Error
\* state with the oversize message whatever the media type, and a file of
\* exactly 16,777,216 bytes is not rejected for its size.
C2_OversizeRejected ==
    (lastOp = "submit" /\ files # None) =>
        /\ files[1].size > 16777216 =>
              /\ OnlyVisible("errorContainer")
              /\ errorMessage = "File size exceeds 16MB limit"
        /\ files[1].size = 16777216 =>
              ~(Visible("errorContainer")
                /\ errorMessage = "File size exceeds 16MB limit")

C2_Witness ==
    /\ lastOp = "submit"
    /\ files # None
    /\ files[1].size > 16777216
    /\ files[1].type = "application/pdf"
    /\ Visible("errorContainer")

NotAllowedType(fs) ==
    fs[1].type \notin
        {"application/pdf",
         "application/vnd.openxmlformats-officedocument.wordprocessingml.document",
         "application/msword"}

\* C3 as stated: a submit of a file whose media type is not one of the three
\* allowed types ends in the Error state with the type message, regardless
\* of the size of the file.
C3_TypeRejectedAnySize ==
    (lastOp = "submit" /\ files # None /\ NotAllowedType(files)) =>
        /\ OnlyVisible("errorContainer")
        /\ errorMessage = "Invalid file type. Please upload a PDF or DOCX file"

\* C3 amended: a submit of a file of at most 16,777,216 bytes whose media
\* type is not one of the three allowed types ends in the Error state with
\* the type message; a larger file gets the oversize message instead.
C3_TypeRejectedWithinLimit ==
    (lastOp = "submit" /\ files # None /\ NotAllowedType(files)) =>
        /\ OnlyVisible("errorContainer")
        /\ errorMessage =
             IF files[1].size <= 16777216
             THEN "Invalid file type. Please upload a PDF or DOCX file"
             ELSE "File size exceeds 16MB limit"

C3_Witness ==
    /\ lastOp = "submit"
    /\ files # None
    /\ files[1].type = "text/plain"
    /\ files[1].size = 16777216
    /\ errorMessage = "Invalid file type. Please upload a PDF or DOCX file"

\* C4: a submit issues a POST if and only if validation accepts: an accepted
\* submit shows Loading and issues exactly one POST, a rejected submit shows
\* Error and issues none.
C4_PostIffAccepted ==
    [][lastOp' = "submit" =>
         IF Accepted(files)
         THEN /\ display' = [c \in Containers |->
                    IF c = "loadingContainer" THEN "block" ELSE "none"]
              /\ inFlight' = inFlight + 1
         ELSE /\ display' = [c \in Containers |->
                    IF c = "errorContainer" THEN "block" ELSE "none"]
              /\ inFlight' = inFlight]_vars

C4_Witness ==
    /\ lastOp = "submit"
    /\ Accepted(files)
    /\ inFlight = 1
    /\ Visible("loadingContainer")

\* C5: for every JSON response, if the status is ok and the success flag is
\* true the view after the response is Results; otherwise it is Error with
\* the payload's error string, or the generic message when there is none.
C5_ResponseRouting ==
    [][\A ok \in BOOLEAN, data \in Responses :
         ResponseWith(ok, data) =>
            IF ok /\ data.success = Some(TRUE)
            THEN display' = [c \in Containers |->
                    IF c = "resultsSection" THEN "block" ELSE "none"]
            ELSE /\ display' = [c \in Containers |->
                       IF c = "errorContainer" THEN "block" ELSE "none"]
                 /\ errorMessage' =
                       IF data.error # None THEN data.error[1]
                       ELSE "An error occurred while processing your resume"
      ]_vars

\* C6: when the request fails at transport level the view is Error with the
\* connection message.
C6_TransportFailureMessage ==
    lastOp = "failure" =>
        /\ OnlyVisible("errorContainer")
        /\ errorMessage = "Failed to connect to server. Please try again."

C6_Witness ==
    /\ lastOp = "failure"
    /\ Visible("errorContainer")

\* C7: from every state, resetForm leaves the Upload state visible, no file
\* selected and the file-name display equal to "Choose File".
C7_ResetReturnsToUpload ==
    lastOp = "reset" =>
        /\ OnlyVisible("uploadSection")
        /\ files = None
        /\ fileName = "Choose File"

\* resetForm ran while a request was still pending
C7_Witness ==
    /\ lastOp = "reset"
    /\ inFlight > 0

\* C8 as stated: whenever a request is in flight the visible state is
\* Loading and it is the only request in flight.
C8_InFlightMeansLoadingAndSingle ==
    inFlight > 0 => (OnlyVisible("loadingContainer") /\ inFlight = 1)

\* C8 amended: right after an accepted submit the visible state is Loading
\* with its request in flight, and Loading is visible only while at least
\* one request is in flight.
C8_LoadingOnlyWhileInFlight ==
    /\ Visible("loadingContainer") => inFlight >= 1
    /\ (lastOp = "submit" /\ Accepted(files)) =>
           (OnlyVisible("loadingContainer") /\ inFlight >= 1)

\* a second submit was handled while the first request was pending
C8_Witness ==
    /\ lastOp = "submit"
    /\ inFlight = 2
    /\ Visible("loadingContainer")

\* what the specification asks of a domain tag: every underscore a space,
\* every letter upper case
ExpectedDomainTag(domain) ==
    [i \in 1..Len(domain) |->
        IF domain[i] = "_" THEN " "
        ELSE IF domain[i] = "a" THEN "A" ELSE domain[i]]

ExpectedDomainsList(domains) ==
    IF domains = None \/ domains = Some(<<>>)
    THEN << <<"G", "e", "n", "e", "r", "a", "l">> >>
    ELSE [i \in 1..Len(domains[1]) |-> ExpectedDomainTag(domains[1][i])]

\* C9: displayAnalysis renders one tag per domain, in order, whose text is
\* the domain with underscores replaced by spaces and upper-cased, and the
\* single tag "General" when the list is empty or absent.
C9_DomainTags ==
    [][\A data \in WideResponses :
         ResponseWith(TRUE, data) =>
            domainsList' = ExpectedDomainsList(data.analysis[1].domains)
      ]_vars

\* C10: once Loading is shown and the request settles, the view becomes
\* Results or Error; a step that leaves Loading ends in Results or Error
\* unless it is resetForm, the only handler that shows Upload again.
C10_LoadingIsLeft ==
    /\ Visible("loadingContainer") ~>
          (OnlyVisible("resultsSection") \/ OnlyVisible("errorContainer"))
    /\ [][(Visible("loadingContainer") /\ display'.loadingContainer # "block")
            => \/ lastOp' = "reset"
               \/ display' = [c \in Containers |->
                     IF c = "resultsSection" THEN "block" ELSE "none"]
               \/ display' = [c \in Containers |->
                     IF c = "errorContainer" THEN "block" ELSE "none"]]_vars
    /\ [][(Visible("loadingContainer") /\ display'.uploadSection = "block")
            => lastOp' = "reset"]_vars

\* a pending request was answered and the results are shown
C10_Witness ==
    /\ lastOp = "response"
    /\ OnlyVisible("resultsSection")
    /\ inFlight = 0

====
